---- MODULE Spec2Model ----
(***************************************************************************)
(* AuthenticationService of webauthn.io                                    *)
(* (src/_app/homepage/services/authentication.py): the two ceremony        *)
(* operations generate_authentication_options ("begin") and                *)
(* verify_authentication_response ("finish") over the Redis-backed options *)
(* cache.                                                                  *)
(*                                                                         *)
(* Text (str) is modelled as a sequence of base64url symbols 0..63, bytes  *)
(* as a sequence of 0..255, so that encoding and decoding are computed.    *)
(***************************************************************************)
EXTENDS Integers, Sequences, FiniteSets, TLC

VARIABLES
    cache,      \* RedisService(db=3): key -> [value, ttl], absent keys not in DOMAIN
    call,       \* per request worker: the verify_authentication_response call it runs or ran last
    began,      \* the generate_authentication_options call that ran last
    last,       \* per key: the latest begin that stored options, and how long ago
    consumed,   \* per key: a finish call has read the cache for it since the latest begin
    nbegin,     \* number of begin calls so far (indexes the library's fresh challenges)
    nelapse     \* number of time steps so far

vars == <<cache, call, began, last, consumed, nbegin, nelapse>>

(***************************************************************************)
(* Bounds of the model                                                     *)
(***************************************************************************)
MaxBegins == 2
MaxElapses == 3
MaxCreds == 100

(***************************************************************************)
(* Program constants                                                       *)
(***************************************************************************)
AllowLimit == 64
DefaultExpiration == 120
MsPerSecond == 1000
ExpirationFactor == 2

Keys == {"k1", "k2"}
Workers == {"w1", "w2"}

RP_ID == "webauthn.io"

\* a step of one second, and a step that brings a record stored for
\* DefaultExpiration seconds to two seconds before its expiry
ElapseSteps == {1, DefaultExpiration - 2}
CoarseSteps == {DefaultExpiration \div 2}

(***************************************************************************)
(* base64url (webauthn.helpers): bytes <-> unpadded text                   *)
(***************************************************************************)
RECURSIVE bytes_to_base64url(_)
bytes_to_base64url(b) ==
    IF Len(b) = 0 THEN << >>
    ELSE IF Len(b) = 1 THEN << b[1] \div 4, (b[1] % 4) * 16 >>
    ELSE IF Len(b) = 2 THEN
        << b[1] \div 4, (b[1] % 4) * 16 + b[2] \div 16, (b[2] % 16) * 4 >>
    ELSE << b[1] \div 4,
            (b[1] % 4) * 16 + b[2] \div 16,
            (b[2] % 16) * 4 + b[3] \div 64,
            b[3] % 64 >>
         \o bytes_to_base64url(SubSeq(b, 4, Len(b)))

\* urlsafe_b64decode raises binascii.Error when one symbol is left over
base64url_decodable(t) == Len(t) % 4 # 1

RECURSIVE base64url_to_bytes(_)
base64url_to_bytes(t) ==
    IF Len(t) <= 1 THEN << >>
    ELSE IF Len(t) = 2 THEN << t[1] * 4 + t[2] \div 16 >>
    ELSE IF Len(t) = 3 THEN
        << t[1] * 4 + t[2] \div 16, (t[2] % 16) * 16 + t[3] \div 4 >>
    ELSE << t[1] * 4 + t[2] \div 16,
            (t[2] % 16) * 16 + t[3] \div 4,
            (t[3] % 4) * 64 + t[4] >>
         \o base64url_to_bytes(SubSeq(t, 5, Len(t)))

(***************************************************************************)
(* Inputs                                                                  *)
(***************************************************************************)
\* the raw id of the i-th registered credential (lengths 1, 2 and 3)
CredentialIdBytes(i) ==
    IF i % 3 = 1 THEN << i >>
    ELSE IF i % 3 = 2 THEN << i, 255 - i >>
    ELSE << i, 2 * i, 255 >>

\* WebAuthnCredential rows: the id is base64url text at rest
WebAuthnCredential(i) ==
    [id |-> bytes_to_base64url(CredentialIdBytes(i)), transports |-> "usb"]

\* a row whose id is not base64url (one symbol)
CorruptCredential == [id |-> << 5 >>, transports |-> "usb"]

Registered(n) == [i \in 1..n |-> WebAuthnCredential(i)]

CredCounts == {0, 1, AllowLimit, MaxCreds}

\* options.timeout is Optional[int]
NoTimeout == [is_int |-> FALSE, ms |-> 0]
Milliseconds(t) == [is_int |-> TRUE, ms |-> t]
Timeouts == {NoTimeout, Milliseconds(1499), Milliseconds(1500), Milliseconds(60000)}

UserVerificationStrings == {"discouraged", "preferred", "required", "bogus"}

\* (user_verification, existing_credentials, timeout the library puts on the options)
\* the policy strings, with one credential and the library's default timeout
PolicyInputs ==
    {[user_verification |-> u, existing_credentials |-> Registered(1),
      timeout |-> Milliseconds(60000)] : u \in UserVerificationStrings}

CeremonyInputs ==
    {in \in PolicyInputs : in.user_verification \in {"preferred", "required", "bogus"}}

\* the policy strings, the credential lists and the timeouts
BeginInputs ==
    PolicyInputs
    \cup
    {[user_verification |-> "preferred", existing_credentials |-> Registered(n),
      timeout |-> Milliseconds(60000)] : n \in CredCounts}
    \cup
    {[user_verification |-> "preferred",
      existing_credentials |-> Registered(2) \o << CorruptCredential >>,
      timeout |-> Milliseconds(60000)]}
    \cup
    {[user_verification |-> "required", existing_credentials |-> Registered(1), timeout |-> t] :
        t \in Timeouts}

\* client responses: one that the library cannot parse and one that it can
Responses == {"malformed", "assertion"}
Usernames == {"alice"}

\* the library's fresh challenge of the n-th generation
Challenge(n) == IF n % 2 = 1 THEN << n, 250 >> ELSE << n, 129, 77 >>

(***************************************************************************)
(* RedisService: key-value text storage with a time to live                *)
(***************************************************************************)
RedisStore(c, key, value, expiration_seconds) ==
    [k \in DOMAIN c \cup {key} |->
        IF k = key THEN [value |-> value, ttl |-> expiration_seconds] ELSE c[k]]

RedisRetrieve(c, key) ==
    IF key \in DOMAIN c THEN [some |-> TRUE, value |-> c[key].value]
    ELSE [some |-> FALSE, value |-> << >>]

\* the records still alive after d seconds
RedisAfter(c, d) ==
    [k \in {x \in DOMAIN c : c[x].ttl > d} |-> [c[k] EXCEPT !.ttl = @ - d]]

(***************************************************************************)
(* generate_authentication_options                                         *)
(***************************************************************************)
\* the chain closed by an else that leaves the policy unset
UserVerificationRequirementOrUnset(user_verification) ==
    IF user_verification \in {"discouraged", "preferred", "required"}
    THEN [bound |-> TRUE, value |-> user_verification]
    ELSE [bound |-> TRUE, value |-> "unset"]

\* lines 54-59: the if/elif chain has no else, so any other string leaves
\* _user_verification unbound
UserVerificationRequirement(user_verification) ==
    IF user_verification = "discouraged" THEN [bound |-> TRUE, value |-> "discouraged"]
    ELSE IF user_verification = "preferred" THEN [bound |-> TRUE, value |-> "preferred"]
    ELSE IF user_verification = "required" THEN [bound |-> TRUE, value |-> "required"]
    ELSE [bound |-> FALSE, value |-> "unbound"]

\* existing_credentials[:64] in place of [-64:]
FirstCredentials(existing_credentials) ==
    SubSeq(existing_credentials, 1,
           IF Len(existing_credentials) > AllowLimit THEN AllowLimit
           ELSE Len(existing_credentials))

\* existing_credentials[-64:]
LastCredentials(existing_credentials) ==
    LET n == Len(existing_credentials)
    IN  SubSeq(existing_credentials, IF n > AllowLimit THEN n - AllowLimit + 1 ELSE 1, n)

\* lines 64-69: one PublicKeyCredentialDescriptor per kept credential
allow_credentials(existing_credentials) ==
    LET kept == LastCredentials(existing_credentials)
    IN  [i \in 1..Len(kept) |->
            [id |-> base64url_to_bytes(kept[i].id), transports |-> kept[i].transports]]

\* the decoding as it would be if no credential id could fail to decode
AllAssumedDecodable(existing_credentials) == TRUE

AllDecodable(existing_credentials) ==
    LET kept == LastCredentials(existing_credentials)
    IN  \A i \in 1..Len(kept) : base64url_decodable(kept[i].id)

\* webauthn.generate_authentication_options: the PublicKeyCredentialRequestOptions
LibraryOptions(uv, allow, n, timeout) ==
    [challenge |-> Challenge(n), timeout |-> timeout, rp_id |-> RP_ID,
     allow_credentials |-> allow, user_verification |-> uv]

\* webauthn.options_to_json: bytes fields become base64url text
options_to_json(options) ==
    [challenge |-> bytes_to_base64url(options.challenge),
     timeout |-> options.timeout,
     rpId |-> options.rp_id,
     allowCredentials |->
        [i \in 1..Len(options.allow_credentials) |->
            [id |-> bytes_to_base64url(options.allow_credentials[i].id),
             type |-> "public-key",
             transports |-> options.allow_credentials[i].transports]],
     userVerification |-> options.user_verification]

\* the timeout in seconds, not doubled
ExpirationNotDoubled(timeout) ==
    IF timeout.is_int THEN timeout.ms \div MsPerSecond ELSE DefaultExpiration

\* the doubled timeout rounded up to a whole second
ExpirationRoundedUp(timeout) ==
    IF timeout.is_int
    THEN (timeout.ms * ExpirationFactor + MsPerSecond - 1) \div MsPerSecond
    ELSE DefaultExpiration

\* lines 119-126: int(expiration / 1000 * 2), or 120
Expiration(timeout) ==
    IF timeout.is_int THEN (timeout.ms * ExpirationFactor) \div MsPerSecond
    ELSE DefaultExpiration

\* the save as it would be if every ceremony shared one cache key
_save_options_one_key(c, cache_key, options) ==
    RedisStore(c, "k1", options_to_json(options), Expiration(options.timeout))

_save_options(c, cache_key, options) ==
    RedisStore(c, cache_key, options_to_json(options), Expiration(options.timeout))

NoCall == [cache_key |-> "none", user_verification |-> "none",
           existing_credentials |-> << >>, status |-> "none", error |-> "none"]

NeverWritten == [written |-> FALSE, age |-> 0, existing_credentials |-> << >>,
                 options |-> << >>]

\* a begin on cache_key ends what finish calls on it were told about the key, and what
\* ended ones tell about the record they left
Disturb(cache_key) ==
    [w \in DOMAIN call |->
        IF call[w].cache_key = cache_key
        THEN IF call[w].pc # "idle"
             THEN [call[w] EXCEPT !.replay = FALSE, !.raced = FALSE,
                                  !.after_malformed = FALSE]
             ELSE [call[w] EXCEPT !.residual = FALSE]
        ELSE call[w]]

generate_authentication_options(cache_key, in) ==
    LET uv == UserVerificationRequirement(in.user_verification)
        request == [NoCall EXCEPT !.cache_key = cache_key,
                                  !.user_verification = in.user_verification,
                                  !.existing_credentials = in.existing_credentials]
    IN  /\ nbegin < MaxBegins
        /\ nbegin' = nbegin + 1
        /\ consumed' = [consumed EXCEPT ![cache_key] = FALSE]
        /\ call' = Disturb(cache_key)
        /\ nelapse' = nelapse
        /\ IF ~uv.bound THEN
                \* line 63 reads the unbound local
                /\ began' = [request EXCEPT !.status = "raised",
                                             !.error = "UnboundLocalError"]
                /\ UNCHANGED <<cache, last>>
           ELSE IF ~AllDecodable(in.existing_credentials) THEN
                \* line 66: base64url_to_bytes raises
                /\ began' = [request EXCEPT !.status = "raised",
                                             !.error = "binascii.Error"]
                /\ UNCHANGED <<cache, last>>
           ELSE LET options == LibraryOptions(uv.value,
                                   allow_credentials(in.existing_credentials),
                                   nbegin + 1, in.timeout)
                IN  /\ cache' = _save_options(cache, cache_key, options)
                    /\ last' = [last EXCEPT ![cache_key] =
                                    [written |-> TRUE, age |-> 0,
                                     existing_credentials |-> in.existing_credentials,
                                     options |-> options]]
                    /\ began' = [request EXCEPT !.status = "returned"]

(***************************************************************************)
(* Time: the cache drops a record once its time to live has run out        *)
(***************************************************************************)
Elapse(d) ==
    /\ nelapse < MaxElapses
    /\ DOMAIN cache # {}
    /\ nelapse' = nelapse + 1
    /\ cache' = RedisAfter(cache, d)
    /\ last' = [k \in Keys |->
                    IF last[k].written THEN [last[k] EXCEPT !.age = @ + d] ELSE last[k]]
    /\ UNCHANGED <<call, began, consumed, nbegin>>

(***************************************************************************)
(* verify_authentication_response                                          *)
(***************************************************************************)
\* webauthn.helpers.parse_authentication_credential_json
Parses(response) == response # "malformed"

\* the test of line 137 left out: the missing value goes on to line 143
_get_options_unguarded(c, cache_key) ==
    [raised |-> TRUE, some |-> FALSE, error |-> "NameError"]

\* lines 136-150.  json_loads_base64url_to_bytes (line 143) is bound nowhere in
\* the module: the imports of lines 1-22 do not bring it in, so evaluating the
\* name raises NameError whenever the cache holds a value for the key.
_get_options(c, cache_key) ==
    LET options == RedisRetrieve(c, cache_key)
    IN  IF ~options.some THEN [raised |-> FALSE, some |-> FALSE, error |-> "none"]
        ELSE [raised |-> TRUE, some |-> FALSE, error |-> "NameError"]

\* ops: the cache operations the call has issued; verifier: its invocations of
\* webauthn.verify_authentication_response; after_malformed: the worker's
\* call before this one was on the same key, failed to parse and left the record
\* (residual) that is still the latest one stored, kept until the call's cache read
Idle == [pc |-> "idle", cache_key |-> "none", response |-> "none", username |-> "none",
         status |-> "none", error |-> "none", error_key |-> "none",
         ops |-> << >>, verifier |-> << >>, found |-> "unread",
         replay |-> FALSE, raced |-> FALSE,
         after_malformed |-> FALSE, residual |-> FALSE]

\* line 83, entered by an idle worker
verify_authentication_response(w, cache_key, username, response) ==
    /\ call[w].pc = "idle"
    /\ LET started == [Idle EXCEPT !.cache_key = cache_key, !.response = response,
                                   !.username = username,
                                   !.replay = consumed[cache_key],
                                   !.after_malformed =
                                        /\ call[w].error = "InvalidJSONStructure"
                                        /\ call[w].cache_key = cache_key
                                        /\ call[w].residual]
           racing == {v \in DOMAIN call \ {w} :
                        call[v].pc # "idle" /\ call[v].cache_key = cache_key}
       IN  IF ~Parses(response) THEN
                call' = [call EXCEPT ![w] =
                            [started EXCEPT !.status = "raised",
                                            !.error = "InvalidJSONStructure",
                                            !.residual = cache_key \in DOMAIN cache]]
           ELSE call' = [v \in DOMAIN call |->
                            IF v = w THEN [started EXCEPT !.pc = "get_options",
                                                          !.status = "running",
                                                          !.raced = racing # {}]
                            ELSE IF v \in racing THEN [call[v] EXCEPT !.raced = TRUE]
                            ELSE call[v]]
    /\ UNCHANGED <<cache, began, last, consumed, nbegin, nelapse>>

\* lines 84-87: the cache read and what follows it
get_options_step(w) ==
    /\ call[w].pc = "get_options"
    /\ LET key == call[w].cache_key
           options == _get_options(cache, key)
           read == [call[w] EXCEPT !.ops = Append(@, "retrieve"),
                                   !.found = IF key \in DOMAIN cache THEN "present"
                                             ELSE "absent",
                                   !.after_malformed = FALSE]
       IN  /\ IF options.raised THEN
                    call' = [call EXCEPT ![w] =
                                [read EXCEPT !.pc = "idle", !.status = "raised",
                                             !.error = options.error]]
              ELSE IF ~options.some THEN
                    call' = [call EXCEPT ![w] =
                                [read EXCEPT !.pc = "idle", !.status = "raised",
                                             !.error = "InvalidAuthenticationResponse",
                                             !.error_key = key]]
              ELSE  \* lines 89-113 would run from here; no value of _get_options leads here
                    call' = [call EXCEPT ![w] = [read EXCEPT !.pc = "delete_options"]]
           /\ consumed' = [consumed EXCEPT ![key] = TRUE]
    /\ UNCHANGED <<cache, began, last, nbegin, nelapse>>

Init ==
    /\ cache = << >>
    /\ call = [w \in Workers |-> Idle]
    /\ began = NoCall
    /\ last = [k \in Keys |-> NeverWritten]
    /\ consumed = [k \in Keys |-> FALSE]
    /\ nbegin = 0
    /\ nelapse = 0

\* concurrent ceremonies on two keys, time passing in half lives of a record
Next ==
    \/ \E k \in Keys, in \in CeremonyInputs : generate_authentication_options(k, in)
    \/ \E d \in CoarseSteps : Elapse(d)
    \/ \E w \in Workers, k \in Keys, u \in Usernames, r \in Responses :
            verify_authentication_response(w, k, u, r)
    \/ \E w \in Workers : get_options_step(w)

Spec == Init /\ [][Next]_vars

\* one worker on one key, over all the inputs, time passing by the second
NextInputs ==
    \/ \E in \in BeginInputs : generate_authentication_options("k1", in)
    \/ \E d \in ElapseSteps : Elapse(d)
    \/ \E u \in Usernames, r \in Responses : verify_authentication_response("w1", "k1", u, r)
    \/ get_options_step("w1")

SpecInputs == Init /\ [][NextInputs]_vars

(***************************************************************************)
(* Properties                                                              *)
(***************************************************************************)
Ended(w) == call[w].pc = "idle" /\ call[w].status # "none"

\* the step in which worker w's finish call reads the cache and ends
ReadsAndEnds(w) == call[w].pc = "get_options" /\ call'[w].pc = "idle"

\* C1 (as claimed): a finish call on K that reads the cache after an earlier finish
\* call on K has read it, with no begin on K in between, fails with
\* InvalidAuthenticationResponse
C1_SingleUse ==
    \A w \in Workers :
        (Ended(w) /\ call[w].found # "unread" /\ call[w].replay)
            => call[w].error = "InvalidAuthenticationResponse"

\* C3 (as claimed): of two overlapping finish calls on the same key that both read
\* the cache, one observes the record as absent and fails with
\* InvalidAuthenticationResponse
C3_LoserObservesAbsent ==
    \A w, v \in Workers :
        (/\ w # v
         /\ Ended(w) /\ Ended(v)
         /\ call[w].cache_key = call[v].cache_key
         /\ call[w].raced /\ call[v].raced
         /\ call[w].found # "unread" /\ call[v].found # "unread")
            => \/ call[w].found = "absent" /\ call[w].error = "InvalidAuthenticationResponse"
               \/ call[v].found = "absent" /\ call[v].error = "InvalidAuthenticationResponse"

\* C4: a finish call that finds nothing stored under its key fails with
\* InvalidAuthenticationResponse naming the key, having issued the one cache read and
\* nothing else: no delete, no write, no verifier call, the cache as it was
C4_AbsentFailsFast ==
    [][\A w \in Workers :
          (call[w].pc = "get_options" /\ call'[w].pc # "get_options"
           /\ call[w].cache_key \notin DOMAIN cache)
              => /\ call'[w].pc = "idle"
                 /\ call'[w].status = "raised"
                 /\ call'[w].error = "InvalidAuthenticationResponse"
                 /\ call'[w].error_key = call[w].cache_key
                 /\ call'[w].ops = << "retrieve" >>
                 /\ call'[w].verifier = << >>
                 /\ cache' = cache]_vars

C4_Witness ==
    \E w \in Workers :
        /\ Ended(w)
        /\ call[w].found = "absent"
        /\ call[w].error = "InvalidAuthenticationResponse"
        /\ call[w].error_key = call[w].cache_key

\* C5 (as claimed, for the calls that get as far as the cache read): when a finish
\* call on K ends, the cache holds no record for K
C5_FinishLeavesNone ==
    [][\A w \in Workers : ReadsAndEnds(w) => call[w].cache_key \notin DOMAIN cache']_vars

\* C7 (as claimed): a finish call that finds options stored under its key passes the
\* verifier a require_user_verification flag that is true exactly when the stored
\* policy is "required"
C7_RequiredGating ==
    [][\A w \in Workers :
          (ReadsAndEnds(w) /\ call[w].cache_key \in DOMAIN cache)
              => \E flag \in BOOLEAN :
                    /\ call'[w].verifier = << [require_user_verification |-> flag] >>
                    /\ flag = (cache[call[w].cache_key].value.userVerification = "required")]_vars

\* a record as the latest begin on k wrote it
Fresh(k) == k \in DOMAIN cache /\ last[k].written /\ last[k].age = 0

\* C8 (as claimed): the record is written with a time to live of exactly
\* 2 * T / 1000 seconds for a numeric timeout T, and of 120 seconds without a timeout
C8_TTLExact ==
    \A k \in Keys :
        Fresh(k) =>
            IF last[k].options.timeout.is_int
            THEN 1000 * cache[k].ttl = 2 * last[k].options.timeout.ms
            ELSE cache[k].ttl = 120

\* C8 (amended): the time to live is 2 * T / 1000 cut down to a whole number of
\* seconds for a numeric timeout T, and 120 seconds without a timeout
C8_TTLTruncated ==
    \A k \in Keys :
        Fresh(k) =>
            IF last[k].options.timeout.is_int
            THEN /\ 1000 * cache[k].ttl <= 2 * last[k].options.timeout.ms
                 /\ 2 * last[k].options.timeout.ms < 1000 * (cache[k].ttl + 1)
            ELSE cache[k].ttl = 120

C8_Witness ==
    \E k \in Keys :
        /\ Fresh(k)
        /\ last[k].options.timeout.is_int
        /\ last[k].options.timeout.ms % 500 # 0
        /\ cache[k].ttl = 2

\* the time to live the claims derive from a timeout
DerivedTTL(timeout) == IF timeout.is_int THEN (2 * timeout.ms) \div 1000 ELSE 120

\* C9: a finish call reads the cache to find the record of the latest begin on its
\* key exactly when less than the derived time to live has passed since that begin;
\* once that time has passed it fails with InvalidAuthenticationResponse
C9_Expiry ==
    [][\A w \in Workers :
          ReadsAndEnds(w) =>
              LET k == call[w].cache_key
                  alive == last[k].written /\ last[k].age < DerivedTTL(last[k].options.timeout)
              IN  /\ (call'[w].found = "present") = alive
                  /\ ~alive => call'[w].error = "InvalidAuthenticationResponse"]_vars

\* a finish call has found the record of the latest begin expired
C9_Witness ==
    \E w \in Workers :
        LET k == call[w].cache_key
        IN  /\ Ended(w)
            /\ call[w].found = "absent"
            /\ call[w].error = "InvalidAuthenticationResponse"
            /\ consumed[k]
            /\ last[k].written
            /\ last[k].age >= DerivedTTL(last[k].options.timeout)

\* C10: the allowed credentials of the generated options are the last min(n, 64) of
\* the n existing credentials, in their order
C10_Truncation ==
    \A k \in Keys :
        last[k].written =>
            LET existing == last[k].existing_credentials
                allowed == last[k].options.allow_credentials
                n == Len(existing)
                m == IF n < 64 THEN n ELSE 64
            IN  /\ Len(allowed) = m
                /\ \A i \in 1..m :
                      /\ bytes_to_base64url(allowed[i].id) = existing[n - m + i].id
                      /\ allowed[i].transports = existing[n - m + i].transports

C10_Witness ==
    \E k \in Keys :
        /\ last[k].written
        /\ Len(last[k].existing_credentials) > 64
        /\ Len(last[k].options.allow_credentials) = 64

\* C11 (as claimed): loading a record that was saved yields the options that were
\* saved, with the same challenge bytes and the same allowed-credential id bytes
C11_RoundTrip ==
    \A k \in Keys :
        Fresh(k) =>
            LET loaded == _get_options(cache, k)
                saved == last[k].options
            IN  /\ ~loaded.raised
                /\ loaded.some
                /\ loaded.value.challenge = saved.challenge
                /\ Len(loaded.value.allow_credentials) = Len(saved.allow_credentials)
                /\ \A i \in 1..Len(saved.allow_credentials) :
                      loaded.value.allow_credentials[i].id = saved.allow_credentials[i].id

\* the step of a begin call
Begins == nbegin' # nbegin

Recognized(user_verification) ==
    user_verification \in {"discouraged", "preferred", "required"}

C15_ParseBeforeRead ==
    [][\A w \in Workers :
          /\ (call[w].pc = "idle" /\ call'[w].error = "InvalidJSONStructure"
              /\ call'[w] # call[w] /\ nbegin' = nbegin)
                => /\ call'[w].ops = << >>
                   /\ cache' = cache
          /\ (call[w].pc = "get_options" /\ call'[w].pc # "get_options"
              /\ call[w].after_malformed /\ call[w].cache_key \in DOMAIN cache)
                => call'[w].pc # "idle"]_vars

\* the cache as it would be had only the ceremony on key k ever run
Alone(c, k) == [j \in DOMAIN c \cap {k} |-> c[j]]

\* C16: a begin or finish on a key never reads, writes or deletes the record of another
\* key: a begin step leaves every other key's record as it was and stores what it would
\* store into an empty cache; a finish step leaves the cache as it was and ends as it
\* would if the cache held no other key
C16_KeysIndependent ==
    [][/\ Begins =>
            LET K == began'.cache_key
            IN  /\ \A k \in Keys \ {K} :
                      /\ k \in DOMAIN cache' <=> k \in DOMAIN cache
                      /\ k \in DOMAIN cache => cache'[k] = cache[k]
                /\ began'.status = "returned" =>
                      /\ K \in DOMAIN cache'
                      /\ cache'[K] = _save_options(<< >>, K, last'[K].options)[K]
                /\ began'.status = "raised" => Alone(cache', K) = Alone(cache, K)
       /\ \A w \in Workers :
            /\ (call'[w] # call[w] /\ ~Begins) => cache' = cache
            /\ ReadsAndEnds(w) =>
                  LET K == call[w].cache_key
                      alone == _get_options(Alone(cache, K), K)
                  IN  /\ call'[w].ops = <<"retrieve">>
                      /\ call'[w].error = IF alone.raised THEN alone.error
                                          ELSE "InvalidAuthenticationResponse"]_vars

\* both keys hold a record, the latest begin stored one of them and a finish on the
\* other key has read its record and ended
C16_Witness ==
    /\ Keys \subseteq DOMAIN cache
    /\ began.status = "returned"
    /\ \E w \in Workers :
          /\ Ended(w)
          /\ call[w].cache_key \in Keys \ {began.cache_key}
          /\ call[w].found = "present"

\* the begin call's input makes lines 54-70 raise: the policy string is none of the three
\* mapped ones, or one of the credential ids handed to the library does not decode
BeginMustRaise(request) ==
    \/ ~Recognized(request.user_verification)
    \/ LET kept == LastCredentials(request.existing_credentials)
       IN  \E i \in 1..Len(kept) : ~base64url_decodable(kept[i].id)

\* C17: the cache write is the last effectful step of begin: a begin call whose policy
\* mapping or credential-id decoding fails raises, and a begin call that raises has
\* written nothing, so the cache (the key absent, or its earlier record with its remaining
\* lifetime) is as it was
C17_WriteIsLast ==
    [][Begins =>
          /\ BeginMustRaise(began') => began'.status = "raised"
          /\ began'.status = "raised" => cache' = cache /\ last' = last]_vars

\* a begin call raised while decoding a credential id, and the key still holds the
\* record an earlier begin stored
C17_Witness ==
    /\ began.status = "raised"
    /\ began.error = "binascii.Error"
    /\ began.cache_key \in DOMAIN cache
    /\ last[began.cache_key].written

====
